---- MODULE Spec2Model ----
(***************************************************************************)
(* The training orchestrator of train.py as a state machine.               *)
(*                                                                         *)
(* One action per statement group of train() and of the entry point; pc    *)
(* is the position of the single thread of control.  The framework objects *)
(* (model, optimizer, scaler, scheduler, checkpoint files, tracker) are    *)
(* represented by the part of their state the orchestrator can observe:    *)
(*   weights      number of optimizer updates applied to the parameters    *)
(*   bn_tracked   number of training-mode forward passes (the batch-norm   *)
(*                running statistics, which are part of state_dict())      *)
(*   momentum     number of updates folded into the momentum buffers       *)
(*   scale        the scaler's loss scale                                  *)
(*   scheduler    bound or not, and how many times it was stepped          *)
(*   grads        none, scaled (after backward) or unscaled (after step)   *)
(* Rationals (accuracy, precision, recall, the meter's average) are pairs  *)
(* <<numerator, denominator>> in lowest terms; arithmetic is exact.  The   *)
(* EMA wrapper and AverageMeter live outside train.py: the model is the    *)
(* plain network, and the meter is a running sum and count.                *)
(***************************************************************************)
EXTENDS Integers, Sequences, FiniteSets

\* ------------------------------------------------------------------ bounds
MaxEpochs == 3
MaxValStep == 2
MaxBatches == 2
MaxMetricLen == 4
MaxOverflows == 1

\* ------------------------------------------------------- program constants
InitScale == 16384

\* --------------------------------------------------------- input domains
\* loss_S.item() of one training batch
Losses == {1, 2}
\* one validation logit: below, at and above the sigmoid's 0.5 point
Logits == {-1, 0, 1}
BatchSizes == {1, 2}

\* ------------------------------------------------------ extended floats
Fin(v) == [kind |-> "fin", v |-> v]
Inf == [kind |-> "inf", v |-> 0]
NaN == [kind |-> "nan", v |-> 0]
\* criterion(preds, labels).item() of one validation round
ValLosses == {Fin(1), Fin(2), NaN}

\* a < b on floats: false whenever either side is NaN
FLt(a, b) ==
    /\ a.kind # "nan"
    /\ b.kind # "nan"
    /\ a.kind = "fin"
    /\ (b.kind = "inf" \/ a.v < b.v)

\* ------------------------------------------------------------ rationals
RECURSIVE Gcd(_, _)
Gcd(a, b) == IF b = 0 THEN a ELSE Gcd(b, a % b)

\* a / b for a >= 0, b > 0
Ratio(a, b) == <<a \div Gcd(a, b), b \div Gcd(a, b)>>
Zero == Ratio(0, 1)
RLt(x, y) == x[1] * y[2] < y[1] * x[2]
RLe(x, y) == x[1] * y[2] <= y[1] * x[2]

\* ------------------------------------------------------------ sequences
RECURSIVE SumSeq(_)
SumSeq(s) == IF s = <<>> THEN 0 ELSE Head(s) + SumSeq(Tail(s))

SeqsUpTo(S, n) == UNION {[1..k -> S] : k \in 0..n}

Min(a, b) == IF a < b THEN a ELSE b

RECURSIVE Pow2(_)
Pow2(n) == IF n = 0 THEN 1 ELSE 2 * Pow2(n - 1)

\* ------------------------------------------------------------- metrics
\* torch.sigmoid(z).round(): sigmoid(0) = 0.5 rounds to the even value 0
SigmoidRound(z) == IF z > 0 THEN 1 ELSE 0

Rounded(logits) == [i \in DOMAIN logits |-> SigmoidRound(logits[i])]

\* torch.mean((preds == labels).float())
Accuracy(p, l) == Ratio(Cardinality({i \in DOMAIN l : p[i] = l[i]}), Len(l))

\* the correct predictions, of either class
TruePositivesAsCorrect(p, l) == Cardinality({i \in DOMAIN l : p[i] = l[i]})

\* (preds*labels).sum().item()
TruePositives(p, l) == SumSeq([i \in DOMAIN l |-> p[i] * l[i]])

\* preds.sum().item()
PredictedPositives(p) == SumSeq(p)

\* 1 when there is no positive prediction
PrecisionOne(p, l) ==
    IF PredictedPositives(p) = 0
    THEN Ratio(1, 1)
    ELSE Ratio(TruePositives(p, l), PredictedPositives(p))

\* lines 167-170
Precision(p, l) ==
    IF PredictedPositives(p) = 0
    THEN Zero
    ELSE Ratio(TruePositives(p, l), PredictedPositives(p))

\* the divisor kept away from 0
RecallDivisorClamped(l) == IF SumSeq(l) = 0 THEN 1 ELSE SumSeq(l)

\* the divisor of line 171; the float division raises when it is 0
RecallDivisor(l) == SumSeq(l)

Recall(p, l) == Ratio(TruePositives(p, l), RecallDivisor(l))

\* ------------------------------------------------------- AverageMeter
NewMeter == [sum |-> 0, count |-> 0]
MeterUpdate(m, val) == [sum |-> m.sum + val, count |-> m.count + 1]
MeterAvg(m) == IF m.count = 0 THEN Zero ELSE Ratio(m.sum, m.count)

\* ----------------------------------------------------------------- state
VARIABLES
    \* the configuration and the two data sets (fixed for the run)
    epochs, val_step, use_wandb, use_scheduler, batch_size, s_loader, val_set,
    \* control
    pc, ep, error,
    \* the model
    mode, weights, bn_tracked, grads,
    \* optimizer, scaler, scheduler
    momentum, scale, scaler_stage, found_inf, scheduler,
    \* the training loop's locals
    batch, epoch_loss, loss_S,
    \* the validation round's locals
    vbatch, preds, labels, loss, acc, TP, precision, recall, val_ep,
    \* the running bests
    min_val_loss, max_val_acc, max_val_prec, max_val_rec,
    \* outputs
    log_info, files, reports

cfg == <<epochs, val_step, use_wandb, use_scheduler, batch_size, s_loader, val_set>>
modelv == <<mode, weights, bn_tracked, grads>>
optv == <<momentum, scale, scaler_stage, found_inf, scheduler>>
trainv == <<batch, epoch_loss, loss_S>>
valv == <<vbatch, preds, labels, loss, acc, TP, precision, recall, val_ep>>
bestv == <<min_val_loss, max_val_acc, max_val_prec, max_val_rec>>
outv == <<log_info, files, reports>>
vars == <<cfg, pc, ep, error, modelv, optv, trainv, valv, bestv, outv>>

\* the value of a name that is not bound yet
UnboundFloat == [kind |-> "unbound", v |-> 0]
UnboundRatio == <<>>
UnboundInfo == [unbound |-> TRUE]

\* model.state_dict(): parameters and buffers
StateDict == [weights |-> weights, bn_tracked |-> bn_tracked]

\* len(val_loader)
ValBatches == (Len(val_set) + batch_size - 1) \div batch_size

\* the state train() is in when its epoch loop starts (lines 29-112); the
\* locals of the loops are not bound yet
Setup ==
    /\ pc = "for_ep"
    /\ ep = 0
    /\ error = "none"
    /\ mode = "train"
    /\ weights = 0
    /\ bn_tracked = 0
    /\ grads = "none"
    /\ momentum = 0
    /\ scale = InitScale
    /\ scaler_stage = "READY"
    /\ found_inf = FALSE
    /\ scheduler = [bound |-> use_scheduler, last_epoch |-> 0]
    /\ batch = 0
    /\ epoch_loss = NewMeter
    /\ loss_S = 0
    /\ vbatch = 0
    /\ preds = <<>>
    /\ labels = <<>>
    /\ loss = UnboundFloat
    /\ acc = UnboundRatio
    /\ TP = 0
    /\ precision = UnboundRatio
    /\ recall = UnboundRatio
    /\ val_ep = 0
    /\ min_val_loss = Inf
    /\ max_val_prec = Zero
    /\ max_val_rec = Zero
    /\ max_val_acc = Zero
    /\ log_info = UnboundInfo
    /\ files = <<>>
    /\ reports = <<>>

\* every configuration of the epoch loop, on validation sets of at most one
\* sample; s_loader is the number of mini-batches of the training loader (a
\* DataLoader with shuffle=True is not built over an empty data set)
Init ==
    /\ epochs \in 1..MaxEpochs
    /\ val_step \in 1..MaxValStep
    /\ use_wandb \in BOOLEAN
    /\ use_scheduler \in BOOLEAN
    /\ batch_size = 1
    /\ s_loader \in 1..MaxBatches
    /\ val_set \in SeqsUpTo({0, 1}, 1)
    /\ Setup

\* a validation round every epoch on the validation sets of two samples
\* (the smallest on which accuracy, precision and recall differ), one training
\* batch an epoch
InitVal ==
    /\ epochs \in 1..MaxEpochs
    /\ val_step = 1
    /\ use_wandb = FALSE
    /\ use_scheduler = FALSE
    /\ batch_size = 2
    /\ s_loader = 1
    /\ val_set \in [1..2 -> {0, 1}]
    /\ Setup

\* the configuration of the recall scenario: epochs = 1, val_step = 1
InitMetrics ==
    /\ epochs = 1
    /\ val_step = 1
    /\ use_wandb = TRUE
    /\ use_scheduler = TRUE
    /\ batch_size \in BatchSizes
    /\ s_loader = 1
    /\ val_set \in SeqsUpTo({0, 1}, MaxMetricLen)
    /\ Setup

\* -------------------------------------------------------- training loop
\* line 115: epoch_loss = AverageMeter()
EpochMeter == NewMeter

\* line 114-115: the next epoch, with a fresh meter, or the end of the loop
ForEpoch ==
    /\ pc = "for_ep"
    /\ IF ep < epochs
       THEN /\ ep' = ep + 1
            /\ epoch_loss' = EpochMeter
            /\ batch' = 0
            /\ pc' = "for_batch"
       ELSE /\ pc' = "return"
            /\ UNCHANGED <<ep, epoch_loss, batch>>
    /\ UNCHANGED <<cfg, error, modelv, optv, loss_S, valv, bestv, outv>>

\* line 116: the next mini-batch of s_loader, or the end of its pass
ForBatch ==
    /\ pc = "for_batch"
    /\ IF batch < s_loader
       THEN /\ batch' = batch + 1
            /\ pc' = "forward"
       ELSE /\ pc' = "scheduler"
            /\ UNCHANGED batch
    /\ UNCHANGED <<cfg, ep, error, modelv, optv, epoch_loss, loss_S, valv, bestv, outv>>

\* the statistics move in either mode
ForwardBuffersAnyMode == bn_tracked + 1

\* model(x): a training-mode forward pass updates the batch-norm statistics,
\* an evaluation-mode one does not
ForwardBuffers == IF mode = "train" THEN bn_tracked + 1 ELSE bn_tracked

\* lines 118-125: forward pass and loss
Forward ==
    /\ pc = "forward"
    /\ \E l \in Losses : loss_S' = l
    /\ bn_tracked' = ForwardBuffers
    /\ pc' = "backward"
    /\ UNCHANGED <<cfg, ep, error, mode, weights, grads, optv, batch, epoch_loss,
                   valv, bestv, outv>>

\* line 127: scaler.scale(loss_S).backward()
Backward ==
    /\ pc = "backward"
    /\ grads' = "scaled"
    /\ pc' = "step"
    /\ UNCHANGED <<cfg, ep, error, mode, weights, bn_tracked, optv, trainv, valv,
                   bestv, outv>>

\* the overflows the run may still meet
MayOverflow == scale * Pow2(MaxOverflows) > InitScale

\* line 128: scaler.step(optimizer) unscales the gradients and applies the
\* update unless they hold an inf or a NaN; the scaler takes one step between
\* two updates
ScalerStep ==
    /\ pc = "step"
    /\ scaler_stage = "READY"
    /\ \E inf \in BOOLEAN :
        /\ inf => MayOverflow
        /\ found_inf' = inf
        /\ weights' = IF inf THEN weights ELSE weights + 1
        /\ momentum' = IF inf THEN momentum ELSE momentum + 1
    /\ scaler_stage' = "STEPPED"
    /\ grads' = "unscaled"
    /\ pc' = "update"
    /\ UNCHANGED <<cfg, ep, error, mode, bn_tracked, scale, scheduler, trainv,
                   valv, bestv, outv>>

\* line 129: scaler.update(): the scale is halved after an overflow (it grows
\* only after 2000 clean steps in a row, more than a bounded run takes)
ScalerUpdate ==
    /\ pc = "update"
    /\ scaler_stage = "STEPPED"
    /\ scale' = IF found_inf THEN scale \div 2 ELSE scale
    /\ scaler_stage' = "READY"
    /\ found_inf' = FALSE
    /\ pc' = "zero_grad"
    /\ UNCHANGED <<cfg, ep, error, modelv, momentum, scheduler, trainv, valv,
                   bestv, outv>>

\* the gradients are left in place
GradsKept == grads

\* line 130: model.zero_grad(set_to_none=True)
GradsAfterZero == "none"

\* line 130
ZeroGrad ==
    /\ pc = "zero_grad"
    /\ grads' = GradsAfterZero
    /\ pc' = "track"
    /\ UNCHANGED <<cfg, ep, error, mode, weights, bn_tracked, optv, trainv, valv,
                   bestv, outv>>

\* line 133: epoch_loss.update(loss_S.item())
Track ==
    /\ pc = "track"
    /\ epoch_loss' = MeterUpdate(epoch_loss, loss_S)
    /\ pc' = "for_batch"
    /\ UNCHANGED <<cfg, ep, error, modelv, optv, batch, loss_S, valv, bestv, outv>>

\* the scheduler stepped whatever the configuration says
SchedulerAlways == TRUE

\* line 136
SchedulerEnabled == use_scheduler

\* lines 136-137: the scheduler is referenced only under use_scheduler; the
\* name is bound only under use_scheduler (lines 98-99)
SchedulerStep ==
    /\ pc = "scheduler"
    /\ IF SchedulerEnabled
       THEN IF scheduler.bound
            THEN /\ scheduler' = [scheduler EXCEPT !.last_epoch = @ + 1]
                 /\ pc' = "log_info"
                 /\ UNCHANGED error
            ELSE /\ error' = "NameError"
                 /\ pc' = "failed"
                 /\ UNCHANGED scheduler
       ELSE /\ pc' = "log_info"
            /\ UNCHANGED <<scheduler, error>>
    /\ UNCHANGED <<cfg, ep, modelv, momentum, scale, scaler_stage, found_inf,
                   trainv, valv, bestv, outv>>

\* one mapping for the run, its loss overwritten every epoch
ReusedLogInfo ==
    IF "val_loss" \in DOMAIN log_info
    THEN [log_info EXCEPT !.loss = MeterAvg(epoch_loss)]
    ELSE [loss |-> MeterAvg(epoch_loss)]

\* line 139: a new mapping every epoch
FreshLogInfo == [loss |-> MeterAvg(epoch_loss)]

\* line 139
LogInfo ==
    /\ pc = "log_info"
    /\ log_info' = FreshLogInfo
    /\ pc' = "val_if"
    /\ UNCHANGED <<cfg, ep, error, modelv, optv, trainv, valv, bestv, files,
                   reports>>

\* ------------------------------------------------------ validation phase
\* a validation round on the epochs 1, 1 + val_step, ...
ValidationDueZeroBased == (ep - 1) % val_step = 0

\* line 142
ValidationDue == ep % val_step = 0

\* line 146: model.eval()
ModeAfterEval == "eval"

\* the mode is left as the validation phase set it
ModeKept == mode

\* line 193: model.train()
ModeAfterTrain == "train"

\* lines 142-146
ValIf ==
    /\ pc = "val_if"
    /\ IF ValidationDue
       THEN /\ preds' = <<>>
            /\ labels' = <<>>
            /\ mode' = ModeAfterEval
            /\ vbatch' = 0
            /\ pc' = "val_batch"
       ELSE /\ pc' = "wandb"
            /\ UNCHANGED <<preds, labels, mode, vbatch>>
    /\ UNCHANGED <<cfg, ep, error, weights, bn_tracked, grads, optv, trainv, loss,
                   acc, TP, precision, recall, val_ep, bestv, outv>>

\* the samples of the k-th batch of val_loader (shuffle=False)
ValChunk(k) == ((k - 1) * batch_size + 1)..Min(k * batch_size, Len(val_set))

\* lines 149-155: one batch of val_loader, or the end of its pass
ValBatch ==
    /\ pc = "val_batch"
    /\ IF vbatch < ValBatches
       THEN /\ vbatch' = vbatch + 1
            /\ \E out \in [ValChunk(vbatch + 1) -> Logits] :
                preds' = [i \in 1..(Len(preds) + Cardinality(ValChunk(vbatch + 1))) |->
                            IF i <= Len(preds) THEN preds[i] ELSE out[i]]
            /\ labels' = [i \in 1..(Len(labels) + Cardinality(ValChunk(vbatch + 1))) |->
                            IF i <= Len(labels) THEN labels[i] ELSE val_set[i]]
            /\ bn_tracked' = ForwardBuffers
            /\ pc' = "val_batch"
       ELSE /\ pc' = "metrics"
            /\ UNCHANGED <<vbatch, preds, labels, bn_tracked>>
    /\ UNCHANGED <<cfg, ep, error, mode, weights, grads, optv, trainv, loss, acc,
                   TP, precision, recall, val_ep, bestv, outv>>

\* lines 158-171: torch.cat raises on an empty list; the float division of
\* line 171 raises when no label is positive, after lines 162-170 have run
ComputeMetrics ==
    /\ pc = "metrics"
    /\ IF preds = <<>>
       THEN /\ error' = "RuntimeError"
            /\ pc' = "failed"
            /\ UNCHANGED <<preds, loss, acc, TP, precision, recall, val_ep>>
       ELSE /\ \E l \in ValLosses : loss' = l
            /\ preds' = Rounded(preds)
            /\ acc' = Accuracy(Rounded(preds), labels)
            /\ TP' = TruePositives(Rounded(preds), labels)
            /\ precision' = Precision(Rounded(preds), labels)
            /\ val_ep' = ep
            /\ IF RecallDivisor(labels) = 0
               THEN /\ error' = "ZeroDivisionError"
                    /\ pc' = "failed"
                    /\ UNCHANGED recall
               ELSE /\ recall' = Recall(Rounded(preds), labels)
                    /\ pc' = "best"
                    /\ UNCHANGED error
    /\ UNCHANGED <<cfg, ep, modelv, optv, trainv, vbatch, labels, bestv, outv>>

\* the latest loss is taken whether it beats the best or not
BestLossLatest == loss

\* lines 177-184: each running best moves only when beaten
BestLoss == IF FLt(loss, min_val_loss) THEN loss ELSE min_val_loss
BestAcc == IF RLt(max_val_acc, acc) THEN acc ELSE max_val_acc
BestPrec == IF RLt(max_val_prec, precision) THEN precision ELSE max_val_prec
BestRec == IF RLt(max_val_rec, recall) THEN recall ELSE max_val_rec

\* lines 173-176
AnyImproved ==
    \/ FLt(loss, min_val_loss)
    \/ RLt(max_val_acc, acc)
    \/ RLt(max_val_prec, precision)
    \/ RLt(max_val_rec, recall)

\* lines 173-184
UpdateBest ==
    /\ pc = "best"
    /\ IF AnyImproved
       THEN /\ min_val_loss' = BestLoss
            /\ max_val_acc' = BestAcc
            /\ max_val_prec' = BestPrec
            /\ max_val_rec' = BestRec
       ELSE UNCHANGED bestv
    /\ pc' = "save"
    /\ UNCHANGED <<cfg, ep, error, modelv, optv, trainv, valv, outv>>

\* line 186: written whether or not anything improved
SaveCheckpoint ==
    /\ pc = "save"
    /\ files' = Append(files, [kind |-> "model", ep |-> ep, state |-> StateDict])
    /\ pc' = "log_val"
    /\ UNCHANGED <<cfg, ep, error, modelv, optv, trainv, valv, bestv, log_info,
                   reports>>

\* lines 188-191
LogVal ==
    /\ pc = "log_val"
    /\ log_info' = [loss |-> log_info.loss, val_loss |-> loss, val_acc |-> acc,
                    val_precision |-> precision, val_recall |-> recall]
    /\ pc' = "model_train"
    /\ UNCHANGED <<cfg, ep, error, modelv, optv, trainv, valv, bestv, files,
                   reports>>

\* line 193
ModelTrain ==
    /\ pc = "model_train"
    /\ mode' = ModeAfterTrain
    /\ pc' = "wandb"
    /\ UNCHANGED <<cfg, ep, error, weights, bn_tracked, grads, optv, trainv, valv,
                   bestv, outv>>

\* lines 195-196: wandb.log(log_info) hands the tracker log_info as it is at
\* this point; reports holds the epochs reported so far
WandbLog ==
    /\ pc = "wandb"
    /\ IF use_wandb
       THEN reports' = Append(reports, ep)
       ELSE UNCHANGED reports
    /\ pc' = "for_ep"
    /\ UNCHANGED <<cfg, ep, error, modelv, optv, trainv, valv, bestv, log_info, files>>

\* lines 198, 202-203: train() returns and the entry point saves fin.pth
FinalSave ==
    /\ pc = "return"
    /\ files' = Append(files, [kind |-> "fin", ep |-> 0, state |-> StateDict])
    /\ pc' = "done"
    /\ UNCHANGED <<cfg, ep, error, modelv, optv, trainv, valv, bestv, log_info,
                   reports>>

Next ==
    \/ ForEpoch
    \/ ForBatch
    \/ Forward
    \/ Backward
    \/ ScalerStep
    \/ ScalerUpdate
    \/ ZeroGrad
    \/ Track
    \/ SchedulerStep
    \/ LogInfo
    \/ ValIf
    \/ ValBatch
    \/ ComputeMetrics
    \/ UpdateBest
    \/ SaveCheckpoint
    \/ LogVal
    \/ ModelTrain
    \/ WandbLog
    \/ FinalSave

Spec == Init /\ [][Next]_vars

SpecVal == InitVal /\ [][Next]_vars

SpecMetrics == InitMetrics /\ [][Next]_vars

\* ----------------------------------------------------------------- claims
\* where control is while a training batch is processed (lines 118-133)
TrainingPcs == {"forward", "backward", "step", "update", "zero_grad", "track"}

\* where control is between model.eval() and model.train() (lines 146-193)
ValidationPcs == {"val_batch", "metrics", "best", "save", "log_val", "model_train"}

\* the run was cut short by an exception raised inside the validation phase
FailedInValidation ==
    pc = "failed" /\ error \in {"RuntimeError", "ZeroDivisionError"}

\* the epochs whose checkpoint has been written, in the order of writing
ModelFiles == {i \in 1..Len(files) : files[i].kind = "model"}
FinFiles == {i \in 1..Len(files) : files[i].kind = "fin"}

\* the epochs whose body has run to its end
Completed == IF pc \in {"for_ep", "return", "done"} THEN ep ELSE ep - 1

\* the validation epochs among 1..n
DueUpTo(n) == {e \in 1..n : e % val_step = 0}

\* the latest round improved none of the running bests
NothingImproved ==
    /\ FLt(min_val_loss, loss)
    /\ RLt(acc, max_val_acc)
    /\ RLt(precision, max_val_prec)
    /\ RLt(recall, max_val_rec)

\* C1: checkpoint model_<ep> is written exactly for the epochs ep with
\* ep mod val_step = 0, once each and in epoch order, whether or not the round
\* improved anything; a run that reaches the final save has written exactly
\* one more file, fin, after them: floor(epochs / val_step) + 1 files in all.
C1_Checkpoints ==
    /\ \A i \in ModelFiles : files[i].ep \in DueUpTo(epochs)
    /\ \A i, j \in ModelFiles : i < j => files[i].ep < files[j].ep
    /\ pc \in {"for_ep", "return", "done"} =>
            {files[i].ep : i \in ModelFiles} = DueUpTo(ep)
    /\ pc # "done" => FinFiles = {}
    /\ pc = "done" =>
        /\ {files[i].ep : i \in ModelFiles} = DueUpTo(epochs)
        /\ FinFiles = {Len(files)}
        /\ Len(files) = (epochs \div val_step) + 1

\* a finished run of three checkpoints whose last round improved nothing
C1_Witness ==
    /\ pc = "done"
    /\ Len(files) = 3
    /\ val_ep = epochs
    /\ NothingImproved

\* C2: the model is in training mode while a training batch is processed and
\* from the end of a validation phase on, in evaluation mode while validation
\* batches are processed, and never in evaluation mode outside the validation
\* phase (a run cut short inside the phase ends there).
C2_ModeInvariant ==
    /\ pc \in TrainingPcs => mode = "train"
    /\ pc \in {"val_batch", "metrics"} => mode = "eval"
    /\ mode = "eval" => (pc \in ValidationPcs \/ FailedInValidation)
    /\ pc \in {"wandb", "for_ep", "for_batch", "return", "done"} => mode = "train"

\* the first training batch of an epoch that follows a validation epoch
C2_Witness ==
    /\ pc = "backward"
    /\ batch = 1
    /\ ep >= 2
    /\ val_ep = ep - 1
    /\ mode = "train"

\* C3: from one state of the run to the next, min_val_loss stays or gets
\* smaller and max_val_acc, max_val_prec, max_val_rec stay or get larger, and
\* none of the four changes anywhere but in the update of a validation round.
C3_BestMonotonic ==
    [][/\ (min_val_loss' = min_val_loss \/ FLt(min_val_loss', min_val_loss))
       /\ (max_val_acc' = max_val_acc \/ RLt(max_val_acc, max_val_acc'))
       /\ (max_val_prec' = max_val_prec \/ RLt(max_val_prec, max_val_prec'))
       /\ (max_val_rec' = max_val_rec \/ RLt(max_val_rec, max_val_rec'))
       /\ (bestv' # bestv => (pc = "best" /\ ValidationDue))]_vars

\* after the update of a later round that is worse in loss, precision and
\* recall than the bests, which differ from one another
C3_Witness ==
    /\ pc = "save"
    /\ ep >= 2
    /\ FLt(min_val_loss, loss)
    /\ RLt(recall, max_val_rec)
    /\ RLt(precision, max_val_prec)
    /\ RLt(max_val_prec, max_val_rec)

\* lines 162-170 have run on the current preds and labels
PrecisionComputed ==
    \/ pc \in {"best", "save", "log_val", "model_train", "wandb"} /\ val_ep = ep
    \/ pc = "failed" /\ error = "ZeroDivisionError"

\* the number of predictions equal to 1, and of those whose label is 1
PositivePredictions == Cardinality({i \in DOMAIN preds : preds[i] = 1})
CorrectPositives ==
    Cardinality({i \in DOMAIN preds : preds[i] = 1 /\ labels[i] = 1})

C5_RecallAccuracy ==
    (pc \in {"best", "save", "log_val", "model_train", "wandb"} /\ val_ep = ep) =>
        /\ labels = val_set
        /\ Len(preds) = Len(val_set)
        /\ TP = CorrectPositives
        /\ Cardinality({i \in DOMAIN labels : labels[i] = 1}) > 0
        /\ recall[1] * Cardinality({i \in DOMAIN labels : labels[i] = 1})
                = TP * recall[2]
        /\ acc[1] * Len(labels)
                = Cardinality({i \in DOMAIN labels : preds[i] = labels[i]}) * acc[2]
        /\ (labels = <<1, 0, 1, 0>> /\ preds = <<1, 0, 0, 0>>) =>
                /\ TP = 1
                /\ precision = <<1, 1>>
                /\ recall = <<1, 2>>
                /\ acc = <<3, 4>>

\* the scenario of four samples
C5_Witness ==
    /\ pc = "best"
    /\ labels = <<1, 0, 1, 0>>
    /\ preds = <<1, 0, 0, 0>>
    /\ recall = <<1, 2>>

\* no sample of the validation set has label 1
NoPositiveLabel == \A i \in DOMAIN val_set : val_set[i] = 0

\* a validation round has come to its end, by an exception or not
RoundEnded ==
    \/ pc = "failed"
    \/ pc \in {"best", "save", "log_val", "model_train"}
    \/ DueUpTo(Completed) # {}

\* the run stopped on the division of line 171 and left nothing of the round
StoppedOnRecall ==
    /\ pc = "failed"
    /\ error = "ZeroDivisionError"
    /\ ~ENABLED Next
    /\ recall = UnboundRatio
    /\ bestv = <<Inf, Zero, Zero, Zero>>
    /\ \A i \in 1..Len(files) : files[i].kind = "model" /\ files[i].ep < ep
    /\ \A i \in 1..Len(reports) : reports[i] < ep

\* C6 as stated: a validation round on a validation set without a positive
\* label ends in the division-by-zero error of the recall, which stops the
\* run: no running best is updated, no checkpoint of this or a later epoch and
\* no final checkpoint is written, and the epoch is not reported.
C6_ZeroPositivesStopOnRecall ==
    (NoPositiveLabel /\ RoundEnded) => StoppedOnRecall

\* C6, amended: the same, for a validation set that is not empty.
C6_NonEmptyZeroPositivesStopOnRecall ==
    (NoPositiveLabel /\ val_set # <<>> /\ RoundEnded) => StoppedOnRecall

\* the round of epoch 2 fails on a positive prediction, after the report of
\* epoch 1
C6_Witness ==
    /\ pc = "failed"
    /\ error = "ZeroDivisionError"
    /\ NoPositiveLabel
    /\ ep = 2
    /\ reports = <<1>>
    /\ preds = <<1>>

\* the keys of a report
TrainKeys == {"loss"}
ValKeys == {"val_loss", "val_acc", "val_precision", "val_recall"}

\* C7: with tracking enabled the epochs reported so far are exactly the epochs
\* that have run to their end, once each and in order, and with tracking
\* disabled none is; the mapping handed to the tracker at the end of epoch ep
\* holds the average of the losses of the s_loader batches of that epoch, and
\* holds the four validation values if and only if ep mod val_step = 0, which
\* are then the values computed in epoch ep.
C7_Reports ==
    /\ reports = IF use_wandb THEN [i \in 1..Completed |-> i] ELSE <<>>
    /\ pc = "wandb" =>
        /\ epoch_loss.count = s_loader
        /\ log_info.loss[1] * epoch_loss.count = epoch_loss.sum * log_info.loss[2]
        /\ DOMAIN log_info =
                IF ep % val_step = 0 THEN TrainKeys \cup ValKeys ELSE TrainKeys
        /\ ep % val_step = 0 =>
            /\ val_ep = ep
            /\ log_info.val_loss = loss
            /\ log_info.val_acc = acc
            /\ log_info.val_precision = precision
            /\ log_info.val_recall = recall

\* the report of an epoch without validation that follows a validation epoch
C7_Witness ==
    /\ pc = "for_ep"
    /\ use_wandb
    /\ ep = 3
    /\ val_step = 2
    /\ val_ep = 2
    /\ reports = <<1, 2, 3>>
    /\ DOMAIN log_info = TrainKeys

\* the scheduler steps taken when control is at pc in epoch ep
StepsDue ==
    IF pc \in TrainingPcs \cup {"for_batch", "scheduler"} THEN ep - 1 ELSE ep

\* C8: with a schedule configured the scheduler has been stepped once for
\* every epoch whose training batches are all done, the step of an epoch
\* coming after its last batch and before its validation phase; without one
\* the scheduler is never bound, stepped or referenced.
C8_ScheduleStep ==
    /\ use_scheduler =>
        /\ scheduler.bound
        /\ scheduler.last_epoch = StepsDue
    /\ ~use_scheduler =>
        /\ ~scheduler.bound
        /\ scheduler.last_epoch = 0
        /\ error # "NameError"

\* the validation phase of the second epoch, the schedule stepped twice
C8_Witness ==
    /\ pc = "val_batch"
    /\ use_scheduler
    /\ ep = 2
    /\ scheduler.last_epoch = 2

\* the overflows met so far: the scale is halved once for each
RECURSIVE Halvings(_)
Halvings(sc) == IF sc >= InitScale THEN 0 ELSE 1 + Halvings(2 * sc)

\* the training batches so far that are past the positions of before
BatchesPast(before) ==
    IF pc \in TrainingPcs \cup {"for_batch"}
    THEN (ep - 1) * s_loader + (IF pc \in before THEN batch - 1 ELSE batch)
    ELSE ep * s_loader

\* C9: every batch of every epoch is processed once, its steps in the order
\* forward, scaled backward, scaler-gated optimizer step, scaler update,
\* zero_grad, meter update, and all of them before the next forward pass: the
\* forward pass starts with no gradients, the scaler ready and the meter
\* holding the earlier batches of this epoch only; the step finds the scaled
\* gradients of this batch; the update follows a step; the gradients are gone
\* before the loss is recorded; the epoch's pass ends with s_loader losses in
\* the meter; forward passes, optimizer steps (applied or skipped) and scaler
\* updates each number one for every batch so far.
C9_BatchSteps ==
    /\ pc \in TrainingPcs => batch \in 1..s_loader /\ ep \in 1..epochs
    /\ pc \in {"forward", "backward"} =>
            grads = "none" /\ scaler_stage = "READY" /\ epoch_loss.count = batch - 1
    /\ pc = "step" =>
            grads = "scaled" /\ scaler_stage = "READY" /\ epoch_loss.count = batch - 1
    /\ pc = "update" =>
            grads = "unscaled" /\ scaler_stage = "STEPPED" /\ epoch_loss.count = batch - 1
    /\ pc = "zero_grad" =>
            grads = "unscaled" /\ scaler_stage = "READY" /\ epoch_loss.count = batch - 1
    /\ pc = "track" =>
            grads = "none" /\ scaler_stage = "READY" /\ epoch_loss.count = batch - 1
    /\ pc = "for_batch" => grads = "none" /\ epoch_loss.count = batch
    /\ pc = "scheduler" => epoch_loss.count = s_loader /\ batch = s_loader
    /\ bn_tracked = BatchesPast({"forward"})
    /\ weights + Halvings(scale) + (IF found_inf THEN 1 ELSE 0)
            = BatchesPast({"forward", "backward", "step"})
    /\ momentum = weights

\* the second batch of the second epoch is about to start
C9_Witness ==
    /\ pc = "forward"
    /\ ep = 2
    /\ batch = 2
    /\ grads = "none"
    /\ epoch_loss.count = 1
    /\ weights = s_loader

\* what the training steps change and the validation phase must not
TrainedState ==
    <<weights, bn_tracked, grads, momentum, scale, scaler_stage, found_inf,
      scheduler, batch, epoch_loss, loss_S>>

\* the epoch whose last training batch gave the model its current state
TrainedThrough ==
    IF (pc = "for_batch" /\ batch = 0) \/ (pc = "forward" /\ batch = 1)
    THEN ep - 1
    ELSE ep

\* every checkpoint holds the buffers of its epoch's last training batch, and
\* the checkpoint of the epoch trained last holds the state of the model
CheckpointsHold ==
    \A i \in ModelFiles :
        /\ files[i].state.bn_tracked = files[i].ep * s_loader
        /\ files[i].ep = TrainedThrough => files[i].state = StateDict

\* C10: a step of the validation phase leaves parameters, buffers, gradients,
\* optimizer, scaler and scheduler as they are; the checkpoint of epoch ep
\* holds the state the model has from the last training batch of ep until the
\* first training batch of the next epoch; and when epochs mod val_step = 0
\* the final checkpoint holds the same state as the checkpoint of the last
\* epoch.
C10_ValidationFrame ==
    [][/\ pc \in ValidationPcs \cup {"val_if"} => TrainedState' = TrainedState
       /\ CheckpointsHold'
       /\ (pc' = "done" /\ epochs % val_step = 0) =>
            /\ files'[Len(files')].kind = "fin"
            /\ files'[Len(files') - 1].kind = "model"
            /\ files'[Len(files') - 1].ep = epochs
            /\ files'[Len(files')].state = files'[Len(files') - 1].state]_vars

\* a finished run whose last epoch was validated, after an overflow
C10_Witness ==
    /\ pc = "done"
    /\ epochs = 2
    /\ val_step = 1
    /\ Len(val_set) = 1
    /\ Len(files) = 3
    /\ files[3].state = files[2].state
    /\ files[2].state # files[1].state
    /\ weights < bn_tracked

====
